---- MODULE Spec2Model ----
(***************************************************************************)
(* A model of parcel_sourcemap's SourceMap (src/parcel_sourcemap/src/lib.rs)*)
(* and of the bulk ingest of its node binding                              *)
(* (src/parcel_sourcemap_node/src/lib.rs).                                 *)
(*                                                                         *)
(* Representation.                                                         *)
(*  - Option<T>: None is <<>>, Some(x) is <<x>>.                           *)
(*  - u32: TLC's integers are 32 bits wide and signed, so a u32 is held as *)
(*    its 32-bit pattern read in two's complement: v < 2^31 is v, and      *)
(*    v >= 2^31 is v - 2^32 (u32::MAX is -1).  Wrapping u32 arithmetic is  *)
(*    then integer arithmetic, the unsigned order is ULt, and an overflow  *)
(*    is a change of sign (all operands of the model are far from 2^31).   *)
(*  - BTreeMap<K, V>: a function whose DOMAIN is the finite set of keys.   *)
(*  - a byte string: a sequence of one-character strings.                  *)
(*  - arithmetic overflow of a u32 panics in a build with overflow checks  *)
(*    (debug) and wraps in a build without (release): overflow_checks is   *)
(*    the build's setting, chosen once.                                    *)
(***************************************************************************)
EXTENDS Integers, Sequences, FiniteSets, TLC

VARIABLES
    sources,          \* SourceMap.sources: Vec<String>
    names,            \* SourceMap.names: Vec<String>
    sources_content,  \* SourceMap.sources_content: HashMap<u32, String>
    mapping_lines,    \* SourceMap.mapping_lines: BTreeMap<u32, MappingLine>
    overflow_checks,  \* the build: TRUE panics on u32 overflow, FALSE wraps
    pc,               \* the caller: "idle", "returned" or "panicked"
    last,             \* the last call: its name, arguments, result, and the
                      \* mapping_lines it started from (last.pre)
    input,            \* the mappings string a codec run started from
    unchecked         \* ghost: some add_mapping stored a caller's index that
                      \* was out of range of the tables at the time

vars == <<sources, names, sources_content, mapping_lines, overflow_checks,
          pc, last, input, unchecked>>

-----------------------------------------------------------------------------
(* Bounds of the model.                                                    *)

MaxLine == 3
MaxCol == 2
MaxShift == 2
MaxMappings == 3
MaxTokens == 3

-----------------------------------------------------------------------------
(* Option, u32 and BTreeMap.                                               *)

None == <<>>
Some(x) == <<x>>
IsSome(o) == o # <<>>
Unwrap(o) == o[1]

\* the order of u32 on the two's complement representation
ULt(a, b) == IF (a >= 0) = (b >= 0) THEN a < b ELSE a >= 0
ULe(a, b) == a = b \/ ULt(a, b)

\* u32::MAX
U32_MAX == 0 - 1

\* BTreeMap::new
EmptyMap == <<>>

\* BTreeMap::insert: sets the key, overwriting
insert(m, k, v) == [x \in (DOMAIN m) \cup {k} |-> IF x = k THEN v ELSE m[x]]

Restrict(m, S) == [x \in S |-> m[x]]

\* BTreeMap::split_off(&key): self keeps the keys below key, the keys at or
\* above it are returned
split_off_kept(m, key) == Restrict(m, {k \in DOMAIN m : ULt(k, key)})
split_off_returned(m, key) == Restrict(m, {k \in DOMAIN m : ULe(key, k)})

\* the least key of a non-empty set, and the keys in a BTreeMap's iteration order
UMin(S) == CHOOSE k \in S : \A j \in S : ULe(k, j)
UMax(S) == CHOOSE k \in S : \A j \in S : ULe(j, k)

RECURSIVE Ascending(_)
Ascending(S) ==
    IF S = {} THEN <<>>
    ELSE LET k == UMin(S) IN <<k>> \o Ascending(S \ {k})

-----------------------------------------------------------------------------
(* mapping.rs and mapping_line.rs: the value types.                        *)

\* OriginalLocation::new(original_line, original_column, source, name)
OriginalLocation(original_line, original_column, source, name) ==
    [original_line |-> original_line, original_column |-> original_column,
     source |-> source, name |-> name]

\* Mapping::new(generated_line, generated_column, original)
Mapping(generated_line, generated_column, original) ==
    [generated_line |-> generated_line, generated_column |-> generated_column,
     original |-> original]

\* MappingLine::new(generated_line)
MappingLine_new(generated_line) ==
    [generated_line |-> generated_line, mappings |-> EmptyMap]

\* MappingLine::add_mapping(generated_column, original)
MappingLine_add_mapping(line, generated_column, original) ==
    [line EXCEPT !.mappings = insert(line.mappings, generated_column, original)]

-----------------------------------------------------------------------------
(* SourceMap: the mapping index.                                           *)

\* SourceMap::add_mapping: entry(generated_line).or_insert(MappingLine::new)
\* and then MappingLine::add_mapping
add_mapping(lines, mapping) ==
    LET line == IF mapping.generated_line \in DOMAIN lines
                THEN lines[mapping.generated_line]
                ELSE MappingLine_new(mapping.generated_line)
    IN  insert(lines, mapping.generated_line,
               MappingLine_add_mapping(line, mapping.generated_column,
                                       mapping.original))

\* SourceMap::find_closest_mapping: mappings.range(..generated_column)
\* .next_back() of the line stored at generated_line
\* find_closest_mapping with the inclusive range ..=generated_column
find_closest_mapping_inclusive(lines, generated_line, generated_column) ==
    IF generated_line \in DOMAIN lines
    THEN LET line == lines[generated_line]
             range == {c \in DOMAIN line.mappings : ULe(c, generated_column)}
         IN  IF range # {}
             THEN Some(Mapping(generated_line, UMax(range),
                               line.mappings[UMax(range)]))
             ELSE None
    ELSE None

find_closest_mapping(lines, generated_line, generated_column) ==
    IF generated_line \in DOMAIN lines
    THEN LET line == lines[generated_line]
             range == {c \in DOMAIN line.mappings : ULt(c, generated_column)}
         IN  IF range # {}
             THEN LET column_number == UMax(range)
                  IN  Some(Mapping(generated_line, column_number,
                                   line.mappings[column_number]))
             ELSE None
    ELSE None

\* MappingLine::offset_columns(generated_column, generated_column_offset).
\* mapping_line.rs is not among the sources.  Its result on the columns
\* {2, 7, 15, 43} under (14, -9) is fixed by tests::offset_columns to
\* {2, 6, 34}: the entries at or above the pivot are re-keyed, and the entries
\* of the window [pivot + offset, pivot) that the shifted text replaces are
\* removed.  It fails, changing nothing, when a re-keyed entry would get a
\* negative column; with a start column below 0 and no entry to re-key,
\* nothing is touched.
MappingLine_offset_columns(line, generated_column, generated_column_offset) ==
    LET part_to_remap == split_off_returned(line.mappings, generated_column)
        below == split_off_kept(line.mappings, generated_column)
        start_column == generated_column + generated_column_offset
        kept == Restrict(below, {c \in DOMAIN below :
                                   start_column < 0 \/ c < start_column})
        moved == {c + generated_column_offset : c \in DOMAIN part_to_remap}
    IN  IF \E c \in DOMAIN part_to_remap : c + generated_column_offset < 0
        THEN [res |-> "UnexpectedNegativeNumber", line |-> line]
        ELSE [res |-> "ok",
              line |-> [line EXCEPT !.mappings =
                  [c \in (DOMAIN kept) \cup moved |->
                      IF c \in moved
                      THEN part_to_remap[c - generated_column_offset]
                      ELSE kept[c]]]]

\* offset_columns delegating to every stored line instead of the one at
\* generated_line
offset_columns_every_line(lines, generated_line, generated_column, generated_column_offset) ==
    [res |-> "ok",
     lines |-> [l \in DOMAIN lines |->
                   MappingLine_offset_columns(lines[l], generated_column,
                       generated_column_offset).line]]

\* offset_columns working on a copy of the line (get and clone instead of
\* get_mut): the stored line stays as it was
offset_columns_on_copy(lines, generated_line, generated_column, generated_column_offset) ==
    IF generated_line \in DOMAIN lines
    THEN [res |-> MappingLine_offset_columns(lines[generated_line],
                      generated_column, generated_column_offset).res,
          lines |-> lines]
    ELSE [res |-> "ok", lines |-> lines]

\* SourceMap::offset_columns: delegates to the line stored at generated_line,
\* Ok(()) when there is none
offset_columns(lines, generated_line, generated_column, generated_column_offset) ==
    IF generated_line \in DOMAIN lines
    THEN LET r == MappingLine_offset_columns(lines[generated_line],
                      generated_column, generated_column_offset)
         IN  [res |-> r.res,
              lines |-> [lines EXCEPT ![generated_line] = r.line]]
    ELSE [res |-> "ok", lines |-> lines]

\* the loop of SourceMap::offset_lines that re-adds the detached lines:
\* key - abs_offset and key + abs_offset are u32 arithmetic, which panics
\* under overflow checks and wraps without them.  A panic leaves the lines
\* inserted so far.
\* the re-adding loop taking key + abs_offset whatever the sign of the
\* offset
RECURSIVE offset_lines_reinsert_adding(_, _, _, _, _)
offset_lines_reinsert_adding(lines, keys, part_to_remap, generated_line_offset, checks) ==
    IF keys = <<>> THEN [res |-> "ok", lines |-> lines]
    ELSE offset_lines_reinsert_adding(
             insert(lines,
                    Head(keys) + (IF generated_line_offset < 0
                                  THEN 0 - generated_line_offset
                                  ELSE generated_line_offset),
                    part_to_remap[Head(keys)]),
             Tail(keys), part_to_remap, generated_line_offset, checks)

RECURSIVE offset_lines_reinsert(_, _, _, _, _)
offset_lines_reinsert(lines, keys, part_to_remap, generated_line_offset, checks) ==
    IF keys = <<>> THEN [res |-> "ok", lines |-> lines]
    ELSE LET key == Head(keys)
             new_key == key + generated_line_offset
             overflows == IF generated_line_offset < 0
                          THEN key >= 0 /\ new_key < 0
                          ELSE key < 0 /\ new_key >= 0
         IN  IF overflows /\ checks
             THEN [res |-> "panic", lines |-> lines]
             ELSE offset_lines_reinsert(
                      insert(lines, new_key, part_to_remap[key]), Tail(keys),
                      part_to_remap, generated_line_offset, checks)

\* offset_lines without its second split_off: the lines of the window stay
offset_lines_keeping_window(lines, generated_line, generated_line_offset, checks) ==
    offset_lines_reinsert(split_off_kept(lines, generated_line),
        Ascending(DOMAIN split_off_returned(lines, generated_line)),
        split_off_returned(lines, generated_line), generated_line_offset,
        checks)

\* offset_lines making its range check after the two split_off instead of
\* before them: the error leaves the lines below the wrapped start line
offset_lines_checking_late(lines, generated_line, generated_line_offset, checks) ==
    LET part_to_remap == split_off_returned(lines, generated_line)
        remaining == split_off_kept(split_off_kept(lines, generated_line),
                         generated_line + generated_line_offset)
    IN  IF generated_line < 0 /\ generated_line + generated_line_offset >= 0
        THEN [res |-> "UnexpectedNegativeNumber", lines |-> remaining]
        ELSE offset_lines_reinsert(remaining, Ascending(DOMAIN part_to_remap),
                                   part_to_remap, generated_line_offset, checks)

\* SourceMap::offset_lines(generated_line, generated_line_offset).
\* start_line is an i64: it exceeds u32::MAX exactly when generated_line is
\* in the upper half of u32 and the sum leaves it upwards; a negative
\* start_line passes the check and `as u32` wraps it.
offset_lines(lines, generated_line, generated_line_offset, checks) ==
    LET start_line_above_max ==
            generated_line < 0 /\ generated_line + generated_line_offset >= 0
        part_to_remap == split_off_returned(lines, generated_line)
        u_start_line == generated_line + generated_line_offset
        remaining == split_off_kept(split_off_kept(lines, generated_line),
                                    u_start_line)
    IN  IF start_line_above_max
        THEN [res |-> "UnexpectedNegativeNumber", lines |-> lines]
        ELSE offset_lines_reinsert(remaining, Ascending(DOMAIN part_to_remap),
                                   part_to_remap, generated_line_offset, checks)

-----------------------------------------------------------------------------
(* The base64 VLQ primitive (the vlq crate) and vlq_utils.rs.              *)

Base64 ==
    <<"A", "B", "C", "D", "E", "F", "G", "H", "I", "J", "K", "L", "M",
      "N", "O", "P", "Q", "R", "S", "T", "U", "V", "W", "X", "Y", "Z",
      "a", "b", "c", "d", "e", "f", "g", "h", "i", "j", "k", "l", "m",
      "n", "o", "p", "q", "r", "s", "t", "u", "v", "w", "x", "y", "z",
      "0", "1", "2", "3", "4", "5", "6", "7", "8", "9", "+", "/">>

\* the 6-bit value of a base64 character
decode64(byte) == CHOOSE i \in 0..63 : Base64[i + 1] = byte

IsBase64(byte) == \E i \in 0..63 : Base64[i + 1] = byte

\* is_mapping_separator
is_mapping_separator(byte) == byte \in {",", ";"}

\* the 5-bit groups of u, least first, each but the last with the
\* continuation bit
RECURSIVE vlq_groups(_)
vlq_groups(u) ==
    IF u < 32 THEN <<Base64[u + 1]>>
    ELSE <<Base64[(u % 32) + 32 + 1]>> \o vlq_groups(u \div 32)

\* exactly n continued groups of u
RECURSIVE vlq_continued_groups(_, _)
vlq_continued_groups(u, n) ==
    IF n = 0 THEN <<>>
    ELSE <<Base64[(u % 32) + 32 + 1]>> \o vlq_continued_groups(u \div 32, n - 1)

\* vlq::encode(value: i64): the sign goes to the lowest bit
vlq_encode(value) ==
    vlq_groups(IF value < 0 THEN 2 * (0 - value) + 1 ELSE 2 * value)

\* vlq::encode(x as i64) of a u32 x.  An x in the upper half of u32 is the
\* positive number 2^32 + x (x is its two's complement reading), whose
\* doubling is 7 * 32^6 + (32^6 + 2 * x): six continued groups and a 7.
vlq_encode_u32(x) ==
    IF x >= 0 THEN vlq_encode(x)
    ELSE vlq_continued_groups(1073741824 + 2 * x, 6) \o <<Base64[7 + 1]>>

\* vlq::decode from position pos of input: the groups are summed until one
\* has no continuation bit
RECURSIVE vlq_decode_from(_, _, _, _)
vlq_decode_from(bytes, pos, accum, weight) ==
    IF pos > Len(bytes) THEN [res |-> "VlqUnexpectedEof"]
    ELSE IF ~IsBase64(bytes[pos]) THEN [res |-> "VlqInvalid"]
    ELSE LET digit == decode64(bytes[pos])
             sum == accum + (digit % 32) * weight
         IN  IF digit >= 32
             THEN vlq_decode_from(bytes, pos + 1, sum, weight * 32)
             ELSE [res |-> "ok", pos |-> pos + 1,
                   value |-> IF sum % 2 = 1 THEN 0 - (sum \div 2)
                             ELSE sum \div 2]

vlq_decode(bytes, pos) == vlq_decode_from(bytes, pos, 0, 1)

\* read_relative_vlq(previous: &mut u32, input): adds the decoded delta to
\* the counter; a counter that would go negative is UnexpectedNegativeNumber
read_relative_vlq(previous, bytes, pos) ==
    LET decoded == vlq_decode(bytes, pos)
    IN  IF decoded.res # "ok" THEN decoded
        ELSE IF previous + decoded.value < 0
             THEN [res |-> "UnexpectedNegativeNumber"]
             ELSE [res |-> "ok", pos |-> decoded.pos,
                   value |-> previous + decoded.value]

-----------------------------------------------------------------------------
(* SourceMap: the string tables.                                           *)

\* iter().position(|s| x.eq(s)), 0-based
position(table, x) ==
    IF \E i \in 1..Len(table) : table[i] = x
    THEN Some((CHOOSE i \in 1..Len(table) :
                  table[i] = x /\ \A j \in 1..(i - 1) : table[j] # x) - 1)
    ELSE None

\* add_source / add_name without the look-up: the string is always pushed
add_to_table_always_pushing(table, x) ==
    [table |-> Append(table, x), index |-> Len(table)]

\* SourceMap::add_source / add_name: the table afterwards, and the index
add_to_table(table, x) ==
    IF IsSome(position(table, x))
    THEN [table |-> table, index |-> Unwrap(position(table, x))]
    ELSE [table |-> Append(table, x), index |-> Len(table)]

\* SourceMap::add_sources / add_names: the table afterwards, and the indexes
RECURSIVE add_all_to_table(_, _)
add_all_to_table(table, xs) ==
    IF xs = <<>> THEN [table |-> table, indexes |-> <<>>]
    ELSE LET one == add_to_table(table, Head(xs))
             rest == add_all_to_table(one.table, Tail(xs))
         IN  [table |-> rest.table, indexes |-> <<one.index>> \o rest.indexes]

\* SourceMap::set_source_content(source_index, source_content): the result
\* and sources_content afterwards.  `self.sources.len() as u32 - 1` is u32
\* arithmetic: on an empty table it panics under overflow checks and wraps
\* to u32::MAX without them.
set_source_content(srcs, content, source_index, source_content, checks) ==
    IF Len(srcs) = 0 /\ checks
    THEN [res |-> "panic", content |-> content]
    ELSE IF ULt(Len(srcs) - 1, source_index)
    THEN [res |-> "SourceOutOfRange", content |-> content]
    ELSE [res |-> "ok", content |-> insert(content, source_index, source_content)]

-----------------------------------------------------------------------------
(* SourceMap: the VLQ codec.                                               *)

\* the peek taking only ',' and the end of the input for a separator
at_separator_comma_only(bytes, pos) ==
    pos > Len(bytes) \/ bytes[pos] = ","

\* input.peek().cloned().map_or(true, is_mapping_separator)
at_separator(bytes, pos) ==
    pos > Len(bytes) \/ is_mapping_separator(bytes[pos])

\* the wire index taken as the table index, unchecked and untranslated
get_index_untranslated(indexes, i) == Some(i)

\* source_indexes.get(source as usize) and name_indexes.get(name as usize)
get_index(indexes, i) ==
    IF i < Len(indexes) THEN Some(indexes[i + 1]) ELSE None

\* the parse loop of SourceMap::add_vql_mappings.  c holds the position in
\* the input, the six running counters and the mapping lines so far.
RECURSIVE add_vql_mappings_loop(_, _, _, _)
add_vql_mappings_loop(bytes, c, source_indexes, name_indexes) ==
    IF c.pos > Len(bytes) THEN [res |-> "ok", lines |-> c.lines]
    ELSE IF bytes[c.pos] = ";"
    THEN add_vql_mappings_loop(bytes,
             [c EXCEPT !.generated_line = @ + 1, !.generated_column = 0,
                       !.pos = @ + 1],
             source_indexes, name_indexes)
    ELSE IF bytes[c.pos] = ","
    THEN add_vql_mappings_loop(bytes, [c EXCEPT !.pos = @ + 1],
                               source_indexes, name_indexes)
    ELSE LET col == read_relative_vlq(c.generated_column, bytes, c.pos)
             src == read_relative_vlq(c.source, bytes, col.pos)
             oln == read_relative_vlq(c.original_line, bytes, src.pos)
             ocl == read_relative_vlq(c.original_column, bytes, oln.pos)
             nam == read_relative_vlq(c.name, bytes, ocl.pos)
             fail(res) == [res |-> res, lines |-> c.lines]
         IN  IF col.res # "ok" THEN fail(col.res)
             ELSE IF at_separator(bytes, col.pos)
             THEN add_vql_mappings_loop(bytes,
                      [c EXCEPT !.generated_column = col.value,
                                !.pos = col.pos,
                                !.lines = add_mapping(@,
                                    Mapping(c.generated_line, col.value, None))],
                      source_indexes, name_indexes)
             ELSE IF src.res # "ok" THEN fail(src.res)
             ELSE IF oln.res # "ok" THEN fail(oln.res)
             ELSE IF ocl.res # "ok" THEN fail(ocl.res)
             ELSE IF ~IsSome(get_index(source_indexes, src.value))
             THEN fail("SourceOutOfRange")
             ELSE IF at_separator(bytes, ocl.pos)
             THEN add_vql_mappings_loop(bytes,
                      [c EXCEPT !.generated_column = col.value,
                                !.source = src.value,
                                !.original_line = oln.value,
                                !.original_column = ocl.value,
                                !.pos = ocl.pos,
                                !.lines = add_mapping(@,
                                    Mapping(c.generated_line, col.value,
                                        Some(OriginalLocation(oln.value, ocl.value,
                                            Unwrap(get_index(source_indexes, src.value)),
                                            None))))],
                      source_indexes, name_indexes)
             ELSE IF nam.res # "ok" THEN fail(nam.res)
             ELSE IF ~IsSome(get_index(name_indexes, nam.value))
             THEN fail("NameOutOfRange")
             ELSE add_vql_mappings_loop(bytes,
                      [c EXCEPT !.generated_column = col.value,
                                !.source = src.value,
                                !.original_line = oln.value,
                                !.original_column = ocl.value,
                                !.name = nam.value,
                                !.pos = nam.pos,
                                !.lines = add_mapping(@,
                                    Mapping(c.generated_line, col.value,
                                        Some(OriginalLocation(oln.value, ocl.value,
                                            Unwrap(get_index(source_indexes, src.value)),
                                            Some(Unwrap(get_index(name_indexes,
                                                                  nam.value)))))))],
                      source_indexes, name_indexes)

\* add_vql_mappings storing the wire indexes, bound-checked against the
\* supplied lists, instead of the indexes add_sources / add_names returned
add_vql_mappings_wire_indexes(srcs, nms, lines, bytes, in_sources, in_names) ==
    LET parsed == add_vql_mappings_loop(bytes,
                      [pos |-> 1, generated_line |-> 0, generated_column |-> 0,
                       original_line |-> 0, original_column |-> 0,
                       source |-> 0, name |-> 0, lines |-> lines],
                      [i \in 1..Len(in_sources) |-> i - 1],
                      [i \in 1..Len(in_names) |-> i - 1])
    IN  [res |-> parsed.res, lines |-> parsed.lines,
         sources |-> add_all_to_table(srcs, in_sources).table,
         names |-> add_all_to_table(nms, in_names).table]

\* add_vql_mappings checking a wire index against the length of the map's
\* table instead of the supplied list: an index behind the list is taken
\* as an index of the table
add_vql_mappings_checking_tables(srcs, nms, lines, bytes, in_sources, in_names) ==
    LET merged_sources == add_all_to_table(srcs, in_sources)
        merged_names == add_all_to_table(nms, in_names)
        behind(indexes, table) ==
            indexes \o [i \in 1..(Len(table) - Len(indexes)) |->
                           Len(indexes) + i - 1]
        parsed == add_vql_mappings_loop(bytes,
                      [pos |-> 1, generated_line |-> 0, generated_column |-> 0,
                       original_line |-> 0, original_column |-> 0,
                       source |-> 0, name |-> 0, lines |-> lines],
                      behind(merged_sources.indexes, merged_sources.table),
                      behind(merged_names.indexes, merged_names.table))
    IN  [res |-> parsed.res, lines |-> parsed.lines,
         sources |-> merged_sources.table, names |-> merged_names.table]

\* add_vql_mappings undoing itself when it fails: the lines and the tables
\* are then the ones before the call
add_vql_mappings_atomic(srcs, nms, lines, bytes, in_sources, in_names) ==
    LET merged_sources == add_all_to_table(srcs, in_sources)
        merged_names == add_all_to_table(nms, in_names)
        parsed == add_vql_mappings_loop(bytes,
                      [pos |-> 1, generated_line |-> 0, generated_column |-> 0,
                       original_line |-> 0, original_column |-> 0,
                       source |-> 0, name |-> 0, lines |-> lines],
                      merged_sources.indexes, merged_names.indexes)
    IN  IF parsed.res = "ok"
        THEN [res |-> "ok", lines |-> parsed.lines,
              sources |-> merged_sources.table, names |-> merged_names.table]
        ELSE [res |-> parsed.res, lines |-> lines,
              sources |-> srcs, names |-> nms]

\* SourceMap::add_vql_mappings(input, sources, names): merges the tables,
\* then parses.  The result, the tables and the mapping lines afterwards.
add_vql_mappings(srcs, nms, lines, bytes, in_sources, in_names) ==
    LET merged_sources == add_all_to_table(srcs, in_sources)
        merged_names == add_all_to_table(nms, in_names)
        parsed == add_vql_mappings_loop(bytes,
                      [pos |-> 1, generated_line |-> 0, generated_column |-> 0,
                       original_line |-> 0, original_column |-> 0,
                       source |-> 0, name |-> 0, lines |-> lines],
                      merged_sources.indexes, merged_names.indexes)
    IN  [res |-> parsed.res, lines |-> parsed.lines,
         sources |-> merged_sources.table, names |-> merged_names.table]

\* b";".repeat(n)
RECURSIVE repeat(_, _)
repeat(byte, n) == IF n <= 0 THEN <<>> ELSE <<byte>> \o repeat(byte, n - 1)

\* separators written once per stored line instead of once per line step
line_separators_per_stored_line(generated_line, last_generated_line) ==
    IF generated_line > 0 THEN <<";">> ELSE <<>>

\* write_vlq's separators before a line: none for line 0, else one ';' per
\* line step from the line written last
line_separators(generated_line, last_generated_line) ==
    IF generated_line > 0
    THEN repeat(";", generated_line - last_generated_line)
    ELSE <<>>

\* vlq::encode((value - previous) as i64, output) of a u32 subtraction:
\* value < previous panics under overflow checks and wraps without them
encode_delta(value, previous, checks) ==
    IF ULt(value, previous) /\ checks
    THEN [panic |-> TRUE, bytes |-> <<>>]
    ELSE [panic |-> FALSE, bytes |-> vlq_encode_u32(value - previous)]

\* the body of write_vlq's inner loop for one mapping.  w holds the output
\* and the previous_* counters.
write_mapping(w, generated_column, original, is_first_mapping, checks) ==
    LET comma == IF is_first_mapping THEN <<>> ELSE <<",">>
        col == encode_delta(generated_column, w.previous_generated_column, checks)
        o == Unwrap(original)
        src == encode_delta(o.source, w.previous_source, checks)
        oln == encode_delta(o.original_line, w.previous_original_line, checks)
        ocl == encode_delta(o.original_column, w.previous_original_column, checks)
        nam == encode_delta(Unwrap(o.name), w.previous_name, checks)
        w1 == [w EXCEPT !.out = @ \o comma \o col.bytes,
                        !.previous_generated_column = generated_column]
        w4 == [w1 EXCEPT !.out = @ \o src.bytes \o oln.bytes \o ocl.bytes,
                         !.previous_source = o.source,
                         !.previous_original_line = o.original_line,
                         !.previous_original_column = o.original_column]
        w5 == [w4 EXCEPT !.out = @ \o nam.bytes,
                         !.previous_name = Unwrap(o.name)]
        panicked == [w EXCEPT !.res = "panic"]
    IN  IF col.panic THEN panicked
        ELSE IF ~IsSome(original) THEN w1
        ELSE IF src.panic \/ oln.panic \/ ocl.panic THEN panicked
        ELSE IF ~IsSome(o.name) THEN w4
        ELSE IF nam.panic THEN panicked
        ELSE w5

\* write_vlq's inner loop over one line's mappings, in column order
RECURSIVE write_line(_, _, _, _, _)
write_line(w, columns, mappings, is_first_mapping, checks) ==
    IF columns = <<>> \/ w.res # "ok" THEN w
    ELSE write_line(write_mapping(w, Head(columns), mappings[Head(columns)],
                                  is_first_mapping, checks),
                    Tail(columns), mappings, FALSE, checks)

\* write_vlq's outer loop over the lines, in line order
RECURSIVE write_lines(_, _, _, _)
write_lines(w, keys, lines, checks) ==
    IF keys = <<>> \/ w.res # "ok" THEN w
    ELSE LET generated_line == Head(keys)
             started == [w EXCEPT
                 !.out = @ \o line_separators(generated_line,
                                              w.last_generated_line),
                 !.previous_generated_column = 0]
             written == write_line(started,
                            Ascending(DOMAIN lines[generated_line].mappings),
                            lines[generated_line].mappings, TRUE, checks)
         IN  write_lines([written EXCEPT !.last_generated_line = generated_line],
                         Tail(keys), lines, checks)

\* SourceMap::write_vlq(output): "ok" and the bytes written, or "panic"
write_vlq(lines, checks) ==
    LET w == write_lines(
                 [res |-> "ok", out |-> <<>>, last_generated_line |-> 0,
                  previous_generated_column |-> 0, previous_source |-> 0,
                  previous_original_line |-> 0, previous_original_column |-> 0,
                  previous_name |-> 0],
                 Ascending(DOMAIN lines), lines, checks)
    IN  [res |-> w.res, out |-> IF w.res = "ok" THEN w.out ELSE <<>>]

-----------------------------------------------------------------------------
(* The state after SourceMap::new(), and the caller.                       *)

NoCall == [op |-> "none"]

Init ==
    /\ sources = <<>>
    /\ names = <<>>
    /\ sources_content = EmptyMap
    /\ mapping_lines = EmptyMap
    /\ overflow_checks \in BOOLEAN
    /\ pc = "idle"
    /\ last = NoCall
    /\ input = <<>>
    /\ unchecked = FALSE

\* the number of mappings stored
RECURSIVE CountIn(_, _)
CountIn(lines, keys) ==
    IF keys = {} THEN 0
    ELSE LET k == CHOOSE x \in keys : TRUE
         IN  Cardinality(DOMAIN lines[k].mappings) + CountIn(lines, keys \ {k})

MappingCount(lines) == CountIn(lines, DOMAIN lines)

\* an original whose indexes the tables do not cover
OutOfRange(original, srcs, nms) ==
    /\ IsSome(original)
    /\ \/ ~(Unwrap(original).source < Len(srcs))
       \/ /\ IsSome(Unwrap(original).name)
          /\ ~(Unwrap(Unwrap(original).name) < Len(nms))

\* the caller takes the result of a call and goes on to its next call
Return ==
    /\ pc = "returned"
    /\ pc' = "idle"
    /\ last' = NoCall
    /\ UNCHANGED <<sources, names, sources_content, mapping_lines,
                   overflow_checks, input, unchecked>>

\* the lines and columns the model follows: a call is made while every key
\* is in Ls and every column in Cs
KeysWithin(lines, Ls, Cs) ==
    \A k \in DOMAIN lines :
        k \in Ls /\ \A c \in DOMAIN lines[k].mappings : c \in Cs

\* a call of add_mapping(Mapping::new(line, column, original))
AddMappingIn(Ls, Cs, Os) ==
    /\ pc = "idle"
    /\ \E l \in Ls, c \in Cs, o \in Os :
          /\ mapping_lines' = add_mapping(mapping_lines, Mapping(l, c, o))
          /\ last' = [op |-> "add_mapping", mapping |-> Mapping(l, c, o),
                      res |-> "ok", pre |-> mapping_lines]
          /\ unchecked' = (unchecked \/ OutOfRange(o, sources, names))
    /\ pc' = "returned"
    /\ UNCHANGED <<sources, names, sources_content, overflow_checks, input>>

\* a call of find_closest_mapping(line, column)
FindClosestMappingIn(Ls, Cs) ==
    /\ pc = "idle"
    /\ \E l \in Ls, c \in Cs :
          last' = [op |-> "find_closest_mapping", line |-> l, column |-> c,
                   res |-> "ok",
                   found |-> find_closest_mapping(mapping_lines, l, c),
                   pre |-> mapping_lines]
    /\ pc' = "returned"
    /\ UNCHANGED <<sources, names, sources_content, mapping_lines,
                   overflow_checks, input, unchecked>>

\* a call of offset_columns(line, column, offset)
OffsetColumnsIn(Ls, Cs, Ds) ==
    /\ pc = "idle"
    /\ \E l \in Ls, c \in Cs, d \in Ds :
          LET r == offset_columns(mapping_lines, l, c, d)
          IN  /\ mapping_lines' = r.lines
              /\ last' = [op |-> "offset_columns", line |-> l, column |-> c,
                          offset |-> d, res |-> r.res, pre |-> mapping_lines]
    /\ pc' = "returned"
    /\ UNCHANGED <<sources, names, sources_content, overflow_checks, input,
                   unchecked>>

\* a call of offset_lines(line, offset)
OffsetLinesIn(Ls, Ds) ==
    /\ pc = "idle"
    /\ \E l \in Ls, d \in Ds :
          LET r == offset_lines(mapping_lines, l, d, overflow_checks)
          IN  /\ mapping_lines' = r.lines
              /\ last' = [op |-> "offset_lines", line |-> l, offset |-> d,
                          res |-> r.res, pre |-> mapping_lines]
              /\ pc' = IF r.res = "panic" THEN "panicked" ELSE "returned"
    /\ UNCHANGED <<sources, names, sources_content, overflow_checks, input,
                   unchecked>>

\* a call of write_vlq(&mut output) with an empty Vec.  The model writes
\* maps whose line keys are below 2^31: above, the ';' run alone is
\* gigabytes long.
WriteVlq ==
    /\ pc = "idle"
    /\ \A k \in DOMAIN mapping_lines : k >= 0
    /\ LET r == write_vlq(mapping_lines, overflow_checks)
       IN  /\ last' = [op |-> "write_vlq", res |-> r.res, out |-> r.out,
                       pre |-> mapping_lines]
           /\ pc' = IF r.res = "panic" THEN "panicked" ELSE "returned"
    /\ UNCHANGED <<sources, names, sources_content, mapping_lines,
                   overflow_checks, input, unchecked>>

\* a call of add_vql_mappings(input, sources, names)
AddVlqMappingsIn(Inputs, InSources, InNames) ==
    /\ pc = "idle"
    /\ \E bytes \in Inputs, in_sources \in InSources, in_names \in InNames :
          LET r == add_vql_mappings(sources, names, mapping_lines, bytes,
                                    in_sources, in_names)
          IN  /\ mapping_lines' = r.lines
              /\ sources' = r.sources
              /\ names' = r.names
              /\ last' = [op |-> "add_vlq_mappings", bytes |-> bytes,
                          in_sources |-> in_sources, in_names |-> in_names,
                          res |-> r.res, pre |-> mapping_lines,
                          pre_sources |-> sources, pre_names |-> names]
    /\ pc' = "returned"
    /\ UNCHANGED <<sources_content, overflow_checks, input, unchecked>>

-----------------------------------------------------------------------------
(* Spec: the lines of the index under any sequence of calls.  Every        *)
(* mapping is a boundary mapping at column 0, so that a line is told from  *)
(* another by the generated_line it was created with; the model makes no   *)
(* further call once a line key has left 0..MaxLine.                       *)

GenLines == 0..MaxLine
GenCols == 0..MaxCol
Shifts == (0 - MaxShift)..MaxShift

\* mappings strings of one boundary segment at column 0
RECURSIVE BoundaryInputs(_)
BoundaryInputs(n) ==
    IF n < 0 THEN {} ELSE {repeat(";", n) \o <<"A">>} \cup BoundaryInputs(n - 1)

InLines == KeysWithin(mapping_lines, GenLines, {0})

AddMapping == InLines /\ AddMappingIn(GenLines, {0}, {None})
OffsetLines ==
    InLines /\ OffsetLinesIn((0..(MaxLine + 1)) \cup {U32_MAX}, Shifts)
AddVlqMappings ==
    InLines /\ AddVlqMappingsIn(BoundaryInputs(MaxLine), {<<>>}, {<<>>})

\* after offset_lines(L, +k) has returned Ok, the caller takes it back with
\* offset_lines(L + k, -k); last.first keeps the lines before the first call
OffsetLinesBack ==
    /\ pc = "returned"
    /\ last.op = "offset_lines"
    /\ "first" \notin DOMAIN last
    /\ last.res = "ok"
    /\ last.offset > 0
    /\ LET r == offset_lines(mapping_lines, last.line + last.offset,
                    0 - last.offset, overflow_checks)
       IN  /\ mapping_lines' = r.lines
           /\ last' = [op |-> "offset_lines",
                       line |-> last.line + last.offset,
                       offset |-> 0 - last.offset,
                       res |-> r.res, pre |-> mapping_lines,
                       first |-> last.pre]
           /\ pc' = IF r.res = "panic" THEN "panicked" ELSE "returned"
    /\ UNCHANGED <<sources, names, sources_content, overflow_checks, input,
                   unchecked>>

Next ==
    \/ AddMapping
    \/ OffsetLines
    \/ OffsetLinesBack
    \/ AddVlqMappings
    \/ Return

Spec == Init /\ [][Next]_vars

-----------------------------------------------------------------------------
(* SpecColumns: the columns of two lines under any sequence of calls.      *)

TwoLines == {0, 1}

\* a boundary mapping and a mapping with an original
Originals == {None, Some(OriginalLocation(0, 0, 0, None))}

InColumns == KeysWithin(mapping_lines, TwoLines, GenCols)

ColumnsAddMapping == InColumns /\ AddMappingIn(TwoLines, GenCols, Originals)
ColumnsFindClosestMapping ==
    InColumns /\ FindClosestMappingIn(TwoLines, 0..(MaxCol + 1))
ColumnsOffsetColumns ==
    InColumns /\ OffsetColumnsIn(TwoLines, 0..(MaxCol + 1), Shifts)

NextColumns ==
    \/ ColumnsAddMapping
    \/ ColumnsFindClosestMapping
    \/ ColumnsOffsetColumns
    \/ Return

SpecColumns == Init /\ [][NextColumns]_vars

-----------------------------------------------------------------------------
(* SpecTables: the string tables, caller-supplied indexes and the writer.  *)
(* The map holds up to MaxMappings mappings on two lines and two columns.  *)

SourceStrings == {"a.js", "b.js"}
NameStrings == {"x"}

\* originals that emit one, four and five fields, the third above the
\* others in every field
TableOriginals ==
    {None,
     Some(OriginalLocation(0, 0, 0, None)),
     Some(OriginalLocation(0, 0, 0, Some(0))),
     Some(OriginalLocation(1, 1, 1, Some(1)))}

\* a call of add_source(source)
AddSource ==
    /\ pc = "idle"
    /\ \E source \in SourceStrings :
          LET r == add_to_table(sources, source)
          IN  /\ sources' = r.table
              /\ last' = [op |-> "add_source", source |-> source,
                          res |-> "ok", index |-> r.index,
                          pre |-> mapping_lines, pre_sources |-> sources]
    /\ pc' = "returned"
    /\ UNCHANGED <<names, sources_content, mapping_lines, overflow_checks,
                   input, unchecked>>

\* a call of add_name(name)
AddName ==
    /\ pc = "idle"
    /\ \E name \in NameStrings :
          LET r == add_to_table(names, name)
          IN  /\ names' = r.table
              /\ last' = [op |-> "add_name", name |-> name,
                          res |-> "ok", index |-> r.index,
                          pre |-> mapping_lines, pre_names |-> names]
    /\ pc' = "returned"
    /\ UNCHANGED <<sources, sources_content, mapping_lines, overflow_checks,
                   input, unchecked>>

\* the loop of the binding's add_indexed_mappings over the flat array: six
\* values a mapping, add_mapping at every sixth, an original when none of
\* its three slots is below 0, a name when the sixth value is not
RECURSIVE add_indexed_mappings(_, _, _, _)
add_indexed_mappings(lines, js_mapping_arr, i, v) ==
    IF i >= Len(js_mapping_arr) THEN lines
    ELSE LET value == js_mapping_arr[i + 1]
         IN  IF i % 6 = 5
             THEN add_indexed_mappings(
                      add_mapping(lines,
                          Mapping(v.generated_line, v.generated_column,
                              IF v.original_line > 0 - 1
                                 /\ v.original_column > 0 - 1
                                 /\ v.original_source > 0 - 1
                              THEN Some(OriginalLocation(v.original_line,
                                       v.original_column, v.original_source,
                                       IF value > 0 - 1 THEN Some(value)
                                       ELSE None))
                              ELSE None)),
                      js_mapping_arr, i + 1, v)
             ELSE add_indexed_mappings(lines, js_mapping_arr, i + 1,
                      CASE i % 6 = 0 -> [v EXCEPT !.generated_line = value]
                        [] i % 6 = 1 -> [v EXCEPT !.generated_column = value]
                        [] i % 6 = 2 -> [v EXCEPT !.original_line = value]
                        [] i % 6 = 3 -> [v EXCEPT !.original_column = value]
                        [] i % 6 = 4 -> [v EXCEPT !.original_source = value])

\* the flat arrays the model passes: one mapping, with or without original
\* and name, and with a source index the tables may not hold
IndexedArrays ==
    {<<0, c, ol, 0, src, nm>> :
        c \in {0, 1}, ol \in {0 - 1, 0}, src \in {0 - 1, 0, 1}, nm \in {0 - 1, 0}}

\* the originals stored by a call that the tables do not cover
StoresOutOfRange(before, after, srcs, nms) ==
    \E k \in DOMAIN after : \E c \in DOMAIN after[k].mappings :
        /\ OutOfRange(after[k].mappings[c], srcs, nms)
        /\ ~(k \in DOMAIN before /\ c \in DOMAIN before[k].mappings
             /\ before[k].mappings[c] = after[k].mappings[c])

\* a call of the binding's addIndexedMappings(array)
AddIndexedMappings ==
    /\ pc = "idle"
    /\ MappingCount(mapping_lines) < MaxMappings
    /\ \E arr \in IndexedArrays :
          LET r == add_indexed_mappings(mapping_lines, arr, 0,
                       [generated_line |-> 0, generated_column |-> 0,
                        original_line |-> 0, original_column |-> 0,
                        original_source |-> 0])
          IN  /\ mapping_lines' = r
              /\ last' = [op |-> "add_indexed_mappings", array |-> arr,
                          res |-> "ok", pre |-> mapping_lines]
              /\ unchecked' = (unchecked
                     \/ StoresOutOfRange(mapping_lines, r, sources, names))
    /\ pc' = "returned"
    /\ UNCHANGED <<sources, names, sources_content, overflow_checks, input>>

\* mappings strings of one segment with an original: wire source 0 or 1,
\* wire name absent, 0 or 1
TableInputs ==
    {<<"A", "A", "A", "A">>, <<"A", "C", "A", "A">>,
     <<"A", "A", "A", "A", "A">>, <<"A", "A", "A", "A", "C">>}

\* two lines with a line between them that holds nothing
TableLines == {0, 2}

TablesAddMapping ==
    /\ MappingCount(mapping_lines) < MaxMappings
    /\ AddMappingIn(TableLines, {0, 1}, TableOriginals)
TablesAddVlqMappings ==
    /\ MappingCount(mapping_lines) < MaxMappings
    /\ AddVlqMappingsIn(TableInputs, {<<"a.js">>, <<"b.js", "a.js">>},
                        {<<"x">>})

NextTables ==
    \/ AddSource
    \/ AddName
    \/ TablesAddMapping
    \/ AddIndexedMappings
    \/ TablesAddVlqMappings
    \/ WriteVlq
    \/ Return

SpecTables == Init /\ [][NextTables]_vars

-----------------------------------------------------------------------------
(* SpecCodec: a mappings string is read into a fresh map with              *)
(* add_vql_mappings, and the map is written back with write_vlq.           *)

\* the strings are made of up to MaxTokens of these pieces: separators,
\* segments of one, four and five fields with deltas 0, 1 and -1, a segment
\* of three fields, and wire indexes the tables do not hold
Tokens ==
    {<<";">>, <<",">>, <<"A">>, <<"C">>, <<"D">>,
     <<"A", "A", "A", "A">>, <<"A", "C", "A", "A">>, <<"C", "D", "A", "A">>,
     <<"C", "A", "C", "C">>, <<"C", "A", "D", "A">>, <<"A", "E", "A", "A">>,
     <<"A", "A", "A", "A", "A">>, <<"C", "A", "A", "A", "C">>,
     <<"C", "A", "A", "A", "D">>, <<"A", "A", "A", "A", "E">>,
     <<"A", "A", "C">>}

RECURSIVE TokenStrings(_)
TokenStrings(n) ==
    IF n = 0 THEN {<<>>}
    ELSE LET shorter == TokenStrings(n - 1)
         IN  shorter \cup {s \o t : s \in shorter, t \in Tokens}

CodecSources == <<"a.js", "b.js">>
CodecNames == <<"x", "y">>

InitCodec ==
    /\ sources = <<>>
    /\ names = <<>>
    /\ sources_content = EmptyMap
    /\ mapping_lines = EmptyMap
    /\ overflow_checks \in BOOLEAN
    /\ pc = "idle"
    /\ last = NoCall
    /\ input \in TokenStrings(MaxTokens)
    /\ unchecked = FALSE

\* add_vql_mappings(input, sources, names) on the fresh map
CodecAddVlqMappings ==
    /\ mapping_lines = EmptyMap
    /\ sources = <<>>
    /\ AddVlqMappingsIn({input}, {CodecSources}, {CodecNames})

\* write_vlq on the map the string was read into
CodecWriteVlq ==
    /\ pc = "returned"
    /\ last.op = "add_vlq_mappings"
    /\ LET r == write_vlq(mapping_lines, overflow_checks)
       IN  /\ last' = [op |-> "write_vlq", res |-> r.res, out |-> r.out,
                       pre |-> mapping_lines, read |-> last.res]
           /\ pc' = IF r.res = "panic" THEN "panicked" ELSE "returned"
    /\ UNCHANGED <<sources, names, sources_content, mapping_lines,
                   overflow_checks, input, unchecked>>

NextCodec ==
    \/ CodecAddVlqMappings
    \/ CodecWriteVlq

SpecCodec == InitCodec /\ [][NextCodec]_vars

-----------------------------------------------------------------------------
(* SpecSources: the sources table and the contents installed for it.       *)

ContentStrings == {"let a", "let b"}

\* a call of set_source_content(source_index, source_content), with the
\* indexes of the table and the one behind them
SetSourceContent ==
    /\ pc = "idle"
    /\ \E source_index \in 0..Cardinality(SourceStrings),
          source_content \in ContentStrings :
          LET r == set_source_content(sources, sources_content, source_index,
                       source_content, overflow_checks)
          IN  /\ sources_content' = r.content
              /\ last' = [op |-> "set_source_content",
                          index |-> source_index, content |-> source_content,
                          res |-> r.res, pre |-> mapping_lines,
                          pre_sources |-> sources,
                          pre_content |-> sources_content]
              /\ pc' = IF r.res = "panic" THEN "panicked" ELSE "returned"
    /\ UNCHANGED <<sources, names, mapping_lines, overflow_checks, input,
                   unchecked>>

NextSources ==
    \/ AddSource
    \/ SetSourceContent
    \/ Return

SpecSources == Init /\ [][NextSources]_vars

-----------------------------------------------------------------------------
(* SpecIngest: a mappings string is read, with its own lists of sources    *)
(* and names, into a map without mappings whose tables may hold strings    *)
(* already.                                                                *)

\* strings of one and two segments: wire indexes going up and down, a
\* second line, a wire index no list holds, and a truncated segment
IngestInputs ==
    {<<"A">>,
     <<"A", "A", "A", "A">>,
     <<"A", "C", "A", "A">>,
     <<"A", "A", "A", "A", "A">>,
     <<"A", "A", "A", "A", "C">>,
     <<"A", "C", "A", "A", ",", "C", "D", "A", "A">>,
     <<"A", "A", "A", "A", ",", "C", "C", "A", "A">>,
     <<"A", "A", "C", "A", "A", ";", "A", "A", "A", "C", "C">>,
     <<"A", "C", "A", "A", "C", ",", "C", "D", "A", "C", "D">>,
     <<"A", "A", "A", "A", ",", "C", "A">>,
     <<"A", "E", "A", "A">>,
     <<"A", ",", "C", "A", "A", "A", "E">>}

IngestSources == {<<"a.js">>, <<"b.js", "a.js">>}
IngestNames == {<<"x">>, <<"y", "x">>}

IngestAddVlqMappings ==
    /\ mapping_lines = EmptyMap
    /\ AddVlqMappingsIn(IngestInputs, IngestSources, IngestNames)

NextIngest ==
    \/ AddSource
    \/ AddName
    \/ IngestAddVlqMappings
    \/ Return

SpecIngest == Init /\ [][NextIngest]_vars

-----------------------------------------------------------------------------
(* Claims about offset_lines, checked under Spec.                          *)

\* the lines a call of offset_lines(from_line, ...) detaches and re-keys
Shifted(lines, from_line) == {k \in DOMAIN lines : ULe(from_line, k)}

\* from_line + offset is below 0
StartBelowZero(from_line, offset) == from_line >= 0 /\ from_line + offset < 0

\* a returned call of offset_lines with a negative offset whose start line
\* is not below 0
NegativeLineShift ==
    /\ pc = "returned"
    /\ last.op = "offset_lines"
    /\ last.offset < 0
    /\ ~StartBelowZero(last.line, last.offset)

\* the map of the scenario S5: lines 0, 1, 2 and 5
LinesS5 ==
    add_mapping(add_mapping(add_mapping(add_mapping(EmptyMap,
        Mapping(0, 0, None)), Mapping(1, 0, None)), Mapping(2, 0, None)),
        Mapping(5, 0, None))

\* C2 as stated: after offset_lines(from_line, delta) with delta < 0 and
\* from_line + delta >= 0, every line below from_line that is not the
\* destination of a shifted line is still there, unchanged.
C2_NoLossBelowFromLine ==
    NegativeLineShift =>
        \A k \in DOMAIN last.pre :
            (/\ ULt(k, last.line)
             /\ k \notin {j + last.offset : j \in Shifted(last.pre, last.line)})
            => (k \in DOMAIN mapping_lines /\ mapping_lines[k] = last.pre[k])

\* C2 amended: such a call succeeds; the lines below from_line + delta are
\* still there, unchanged; the lines of the window [from_line + delta,
\* from_line) are removed (a shifted line that lands in the window takes the
\* key); every line at or above from_line is at its key + delta; and the
\* lines {0, 1, 2, 5} become {0, 1, 4} under offset_lines(3, -1), line 5's
\* content at 4 and line 2 gone.
C2_WindowRemoved ==
    /\ NegativeLineShift =>
          LET start == last.line + last.offset
              moved == {j + last.offset : j \in Shifted(last.pre, last.line)}
          IN  /\ last.res = "ok"
              /\ \A k \in DOMAIN last.pre :
                    ULt(k, start) =>
                       (k \in DOMAIN mapping_lines
                        /\ mapping_lines[k] = last.pre[k])
              /\ \A k \in DOMAIN last.pre :
                    (ULe(start, k) /\ ULt(k, last.line) /\ k \notin moved)
                    => k \notin DOMAIN mapping_lines
              /\ \A j \in Shifted(last.pre, last.line) :
                    /\ j + last.offset \in DOMAIN mapping_lines
                    /\ mapping_lines[j + last.offset] = last.pre[j]
    /\ LET r == offset_lines(LinesS5, 3, 0 - 1, overflow_checks)
       IN  /\ r.res = "ok"
           /\ DOMAIN r.lines = {0, 1, 4}
           /\ r.lines[4] = LinesS5[5]

\* a negative shift that keeps a line, removes a line of the window on
\* which no shifted line lands, and moves a line
C2_Witness ==
    /\ NegativeLineShift
    /\ last.res = "ok"
    /\ Shifted(last.pre, last.line) # {}
    /\ \E k \in DOMAIN last.pre : ULt(k, last.line + last.offset)
    /\ \E k \in DOMAIN last.pre :
          /\ ULe(last.line + last.offset, k)
          /\ ULt(k, last.line)
          /\ k \notin DOMAIN mapping_lines

\* C3 as stated: offset_lines returns UnexpectedNegativeNumber whenever
\* from_line + delta or a shifted key would leave 0..u32::MAX, and it never
\* panics or stores a line at a wrapped key.
C3_ErrorWhenKeyLeavesRange ==
    last.op = "offset_lines" =>
        LET leaves(k) == \/ (k >= 0 /\ k + last.offset < 0)
                         \/ (k < 0 /\ k + last.offset >= 0)
        IN  /\ last.res # "panic"
            /\ (leaves(last.line)
                \/ \E k \in Shifted(last.pre, last.line) : leaves(k))
               => (last.res = "UnexpectedNegativeNumber"
                   /\ mapping_lines = last.pre)

-----------------------------------------------------------------------------
(* Claims about find_closest_mapping and offset_columns, checked under     *)
(* SpecColumns.                                                            *)

\* C4: find_closest_mapping(line, col) returns the mapping of exactly that
\* line whose column is the greatest one strictly below col, with its stored
\* original, and absent when the line has no entry below col or does not
\* exist; never an entry of another line, never the entry at col itself.
C4_ClosestMapping ==
    (pc = "returned" /\ last.op = "find_closest_mapping") =>
        LET below == IF last.line \in DOMAIN last.pre
                     THEN {c \in DOMAIN last.pre[last.line].mappings :
                             c >= 0 /\ c < last.column}
                     ELSE {}
        IN  IF below = {}
            THEN last.found = None
            ELSE \E c \in below :
                    /\ \A d \in below : d <= c
                    /\ last.found =
                          Some([generated_line |-> last.line,
                                generated_column |-> c,
                                original |->
                                    last.pre[last.line].mappings[c]])

\* a boundary mapping (absent original) is found below col while the line
\* also holds an entry at col itself and another line holds entries
C4_Witness ==
    /\ pc = "returned"
    /\ last.op = "find_closest_mapping"
    /\ IsSome(last.found)
    /\ Unwrap(last.found).original = None
    /\ last.column \in DOMAIN last.pre[last.line].mappings
    /\ \E l \in DOMAIN last.pre : l # last.line

\* a returned call of offset_columns with a negative offset whose start
\* column is not below 0
NegativeColumnShift ==
    /\ pc = "returned"
    /\ last.op = "offset_columns"
    /\ last.offset < 0
    /\ last.column + last.offset >= 0

\* the map built by tests::offset_columns
ColumnsTest ==
    add_mapping(add_mapping(add_mapping(add_mapping(add_mapping(EmptyMap,
        Mapping(12, 7, Some(OriginalLocation(0, 5, 0, Some(0))))),
        Mapping(15, 9, Some(OriginalLocation(0, 5, 1, Some(0))))),
        Mapping(12, 2, None)),
        Mapping(12, 15, Some(OriginalLocation(0, 5, 0, Some(0))))),
        Mapping(12, 43, None))

\* C7: after offset_columns(line, pivot, delta) with delta < 0 and
\* pivot + delta >= 0 the target line holds exactly the entries whose column
\* was below pivot + delta, unchanged, and the entries whose column was at or
\* above pivot, re-keyed to column + delta with the same original; every
\* other line is unchanged; the columns {2, 7, 15, 43} of line 12 become
\* {2, 6, 34} under offset_columns(12, 14, -9), line 15 untouched.
C7_NegativeColumnOffset ==
    /\ NegativeColumnShift =>
          /\ last.res = "ok"
          /\ DOMAIN mapping_lines = DOMAIN last.pre
          /\ \A l \in DOMAIN last.pre :
                l # last.line => mapping_lines[l] = last.pre[l]
          /\ last.line \in DOMAIN last.pre =>
                LET old == last.pre[last.line].mappings
                    new == mapping_lines[last.line].mappings
                    below == {c \in DOMAIN old :
                                c < last.column + last.offset}
                    above == {c \in DOMAIN old : c >= last.column}
                IN  /\ DOMAIN new = below \cup {c + last.offset : c \in above}
                    /\ \A c \in below : new[c] = old[c]
                    /\ \A c \in above : new[c + last.offset] = old[c]
    /\ LET r == offset_columns(ColumnsTest, 12, 14, 0 - 9)
       IN  /\ r.res = "ok"
           /\ DOMAIN r.lines = {12, 15}
           /\ DOMAIN r.lines[12].mappings = {2, 6, 34}
           /\ r.lines[12].mappings[2] = None
           /\ r.lines[12].mappings[6] = ColumnsTest[12].mappings[15]
           /\ r.lines[12].mappings[34] = None
           /\ r.lines[15] = ColumnsTest[15]

\* a negative column shift on a line with an entry below the start column,
\* an entry at or above the pivot, and another line with entries
C7_Witness ==
    /\ NegativeColumnShift
    /\ last.line \in DOMAIN last.pre
    /\ \E c \in DOMAIN last.pre[last.line].mappings :
          c < last.column + last.offset
    /\ \E c \in DOMAIN last.pre[last.line].mappings : c >= last.column
    /\ \E l \in DOMAIN last.pre : l # last.line

\* C8 as stated: an entry of the line whose column is below pivot_column
\* keeps its column and its value, unless a shifted entry lands on exactly
\* its column, and then the shifted entry replaces it.
C8_BelowPivotKept ==
    (pc = "returned" /\ last.op = "offset_columns"
     /\ last.line \in DOMAIN last.pre) =>
        LET old == last.pre[last.line].mappings
            new == mapping_lines[last.line].mappings
            above == {c \in DOMAIN old : c >= last.column}
        IN  \A c \in DOMAIN old :
               c < last.column =>
                  /\ c \in DOMAIN new
                  /\ new[c] = IF c - last.offset \in above
                              THEN old[c - last.offset]
                              ELSE old[c]

\* C8 amended: with pivot_column + delta >= 0, an entry whose column is
\* below both pivot_column and pivot_column + delta keeps its column and its
\* value; an entry of the window [pivot_column + delta, pivot_column) is
\* removed, its column then holding a shifted entry if one lands there and
\* nothing otherwise; only entries at or above pivot_column are re-keyed.
C8_WindowBelowPivotRemoved ==
    (pc = "returned" /\ last.op = "offset_columns"
     /\ last.line \in DOMAIN last.pre
     /\ last.column + last.offset >= 0) =>
        LET old == last.pre[last.line].mappings
            new == mapping_lines[last.line].mappings
            above == {c \in DOMAIN old : c >= last.column}
        IN  /\ last.res = "ok"
            /\ \A c \in DOMAIN old :
                  (c < last.column /\ c < last.column + last.offset) =>
                     (c \in DOMAIN new /\ new[c] = old[c])
            /\ \A c \in DOMAIN old :
                  (c < last.column /\ c >= last.column + last.offset) =>
                     IF c - last.offset \in above
                     THEN c \in DOMAIN new /\ new[c] = old[c - last.offset]
                     ELSE c \notin DOMAIN new
            /\ \A c \in above :
                  c + last.offset \in DOMAIN new
                  /\ new[c + last.offset] = old[c]

\* a shift that keeps an entry below the window and removes an entry of the
\* window on which no shifted entry lands
C8_Witness ==
    /\ pc = "returned"
    /\ last.op = "offset_columns"
    /\ last.res = "ok"
    /\ last.line \in DOMAIN last.pre
    /\ last.column + last.offset >= 0
    /\ \E c \in DOMAIN last.pre[last.line].mappings :
          /\ c < last.column + last.offset
          /\ c \in DOMAIN mapping_lines[last.line].mappings
    /\ \E c \in DOMAIN last.pre[last.line].mappings :
          /\ c < last.column
          /\ c \notin DOMAIN mapping_lines[last.line].mappings

\* C9 as stated: when a public operation has returned, mapping_lines holds
\* no MappingLine with zero entries.
C9_NoEmptyMappingLine ==
    pc = "returned" =>
        \A l \in DOMAIN mapping_lines :
            DOMAIN mapping_lines[l].mappings # {}

-----------------------------------------------------------------------------
(* Claims about write_vlq and the tables, checked under SpecTables, and    *)
(* about the round trip, checked under SpecCodec.                          *)

\* the pieces of bytes between the occurrences of byte
RECURSIVE SplitBy(_, _)
SplitBy(bytes, byte) ==
    IF \E i \in 1..Len(bytes) : bytes[i] = byte
    THEN LET i == CHOOSE j \in 1..Len(bytes) :
                     bytes[j] = byte /\ \A k \in 1..(j - 1) : bytes[k] # byte
         IN  <<SubSeq(bytes, 1, i - 1)>>
                 \o SplitBy(SubSeq(bytes, i + 1, Len(bytes)), byte)
    ELSE <<bytes>>

\* the segments of one line of the output
SegmentsOf(line_bytes) ==
    IF line_bytes = <<>> THEN <<>> ELSE SplitBy(line_bytes, ",")

\* the fields of a segment: a field ends at the digit without continuation
\* bit
RECURSIVE FieldsOf(_)
FieldsOf(segment) ==
    IF \E i \in 1..Len(segment) : decode64(segment[i]) < 32
    THEN LET i == CHOOSE j \in 1..Len(segment) :
                     /\ decode64(segment[j]) < 32
                     /\ \A k \in 1..(j - 1) : decode64(segment[k]) >= 32
         IN  <<SubSeq(segment, 1, i)>>
                 \o FieldsOf(SubSeq(segment, i + 1, Len(segment)))
    ELSE IF segment = <<>> THEN <<>> ELSE <<segment>>

\* the number of a field of at most six digits; longer fields are beyond the
\* numbers a delta of two u32 below 2^31 can give
FieldIs(field, value) ==
    Len(field) <= 6 /\ vlq_decode(field, 1) = [res |-> "ok",
                                                pos |-> Len(field) + 1,
                                                value |-> value]

\* the number of fields write_vlq is to emit for a mapping
FieldsFor(original) ==
    IF ~IsSome(original) THEN 1
    ELSE IF ~IsSome(Unwrap(original).name) THEN 4 ELSE 5

\* the map built by tests::write_vlq_mappings
WriteTest ==
    add_mapping(add_mapping(add_mapping(EmptyMap,
        Mapping(12, 7, Some(OriginalLocation(0, 5, 0, Some(0))))),
        Mapping(25, 12, None)),
        Mapping(15, 9, Some(OriginalLocation(0, 5, 1, Some(0)))))

\* the structure of an output for the lines it was written from
OutputStructure(lines, out) ==
    LET top == IF DOMAIN lines = {} THEN 0 ELSE UMax(DOMAIN lines)
        by_line == SplitBy(out, ";")
    IN  /\ Cardinality({i \in 1..Len(out) : out[i] = ";"}) = top
        /\ \A l \in 0..top :
              LET segments == SegmentsOf(by_line[l + 1])
                  columns == IF l \in DOMAIN lines
                             THEN Ascending(DOMAIN lines[l].mappings)
                             ELSE <<>>
              IN  /\ Len(segments) = Len(columns)
                  /\ \A i \in 1..Len(columns) :
                        /\ Len(FieldsOf(segments[i])) =
                              FieldsFor(lines[l].mappings[columns[i]])
                        /\ FieldIs(FieldsOf(segments[i])[1],
                               columns[i]
                                 - (IF i = 1 THEN 0 ELSE columns[i - 1]))

\* C5: an output of write_vlq holds as many ';' as the greatest stored line
\* number, none trailing; the segments of a line are separated by ',' and
\* come in ascending column order; a mapping emits 1 field with no original,
\* 4 with an original without name, 5 with a name.  So does the output for
\* the three lines of tests::write_vlq_mappings.
C5_OutputStructure ==
    (pc = "returned" /\ last.op = "write_vlq") =>
        /\ last.res = "ok" => OutputStructure(last.pre, last.out)
        /\ OutputStructure(WriteTest,
               write_vlq(WriteTest, overflow_checks).out)

\* an output for two lines with a line between them, with two segments on a
\* line and mappings of one, four and five fields
C5_Witness ==
    /\ pc = "returned"
    /\ last.op = "write_vlq"
    /\ last.res = "ok"
    /\ DOMAIN last.pre = {0, 2}
    /\ \E l \in DOMAIN last.pre : Cardinality(DOMAIN last.pre[l].mappings) = 2
    /\ \A n \in {1, 4, 5} :
          \E l \in DOMAIN last.pre : \E c \in DOMAIN last.pre[l].mappings :
              FieldsFor(last.pre[l].mappings[c]) = n

\* the mappings with an original in the order write_vlq visits them
RECURSIVE OriginalsInOrder(_, _)
OriginalsInOrder(lines, keys) ==
    IF keys = <<>> THEN <<>>
    ELSE LET mappings == lines[Head(keys)].mappings
             columns == Ascending(DOMAIN mappings)
         IN  SelectSeq([i \in 1..Len(columns) |-> mappings[columns[i]]], IsSome)
                 \o OriginalsInOrder(lines, Tail(keys))

\* the segments of more than one field, in the order of the output
RECURSIVE SegmentsWithOriginal(_)
SegmentsWithOriginal(by_line) ==
    IF by_line = <<>> THEN <<>>
    ELSE LET MoreThanOneField(segment) == Len(FieldsOf(segment)) > 1
         IN  SelectSeq(SegmentsOf(Head(by_line)), MoreThanOneField)
                 \o SegmentsWithOriginal(Tail(by_line))

\* C6 as stated: write_vlq writes source, original line, original column and
\* name as the signed difference from the value written before for that
\* field (0 at the start, kept across lines), a smaller value as a negative
\* delta: never a wrapped value, never a panic.
C6_SignedDeltas ==
    last.op = "write_vlq" =>
        /\ last.res = "ok"
        /\ LET originals == OriginalsInOrder(last.pre,
                                Ascending(DOMAIN last.pre))
               segments == SegmentsWithOriginal(SplitBy(last.out, ";"))
               previous(i, field(_)) ==
                   IF \E j \in 1..(i - 1) : field(Unwrap(originals[j])) # <<>>
                   THEN LET j == CHOOSE k \in 1..(i - 1) :
                                    /\ field(Unwrap(originals[k])) # <<>>
                                    /\ \A m \in (k + 1)..(i - 1) :
                                          field(Unwrap(originals[m])) = <<>>
                        IN  field(Unwrap(originals[j]))[1]
                   ELSE 0
               source_of(o) == <<o.source>>
               line_of(o) == <<o.original_line>>
               column_of(o) == <<o.original_column>>
               name_of(o) == o.name
           IN  /\ Len(segments) = Len(originals)
               /\ \A i \in 1..Len(originals) :
                     LET o == Unwrap(originals[i])
                         fields == FieldsOf(segments[i])
                     IN  /\ Len(fields) = FieldsFor(originals[i])
                         /\ FieldIs(fields[2],
                                o.source - previous(i, source_of))
                         /\ FieldIs(fields[3],
                                o.original_line - previous(i, line_of))
                         /\ FieldIs(fields[4],
                                o.original_column - previous(i, column_of))
                         /\ IsSome(o.name) =>
                               FieldIs(fields[5],
                                   Unwrap(o.name) - previous(i, name_of))

\* every stored original names a source and a name the tables hold
Integrity(lines, srcs, nms) ==
    \A l \in DOMAIN lines : \A c \in DOMAIN lines[l].mappings :
        ~OutOfRange(lines[l].mappings[c], srcs, nms)

\* C10 as stated: in every reachable state every stored original.source is
\* below len(sources) and every stored original.name below len(names),
\* whatever indexes add_mapping and add_indexed_mappings were given.
C10_ReferentialIntegrity == Integrity(mapping_lines, sources, names)

\* C10 amended: every stored original.source is below len(sources) and
\* every stored name below len(names) as long as no call of add_mapping or
\* add_indexed_mappings was given an index its table did not hold at the
\* time of the call; these two store the indexes they are given unchecked,
\* add_vlq_mappings stores only indexes of its merged tables.
C10_IntegrityOfCheckedCalls ==
    ~unchecked => Integrity(mapping_lines, sources, names)

\* originals stored by add_mapping or add_indexed_mappings with the indexes
\* in range, and then an original read by add_vlq_mappings: the second
\* source and a name are stored
C10_Witness ==
    /\ ~unchecked
    /\ pc = "returned"
    /\ last.op = "add_vlq_mappings"
    /\ last.res = "ok"
    /\ MappingCount(last.pre) > 0
    /\ MappingCount(mapping_lines) > MappingCount(last.pre)
    /\ \E l \in DOMAIN mapping_lines : \E c \in DOMAIN mapping_lines[l].mappings :
          /\ IsSome(mapping_lines[l].mappings[c])
          /\ Unwrap(mapping_lines[l].mappings[c]).source = 1
          /\ IsSome(Unwrap(mapping_lines[l].mappings[c]).name)

\* C1 as stated: for a mappings string that add_vlq_mappings accepts with
\* the supplied tables, write_vlq on the map it was read into gives the
\* string back, byte for byte.
C1_RoundTrip ==
    (last.op = "write_vlq" /\ last.read = "ok") =>
        (last.res = "ok" /\ last.out = input)

-----------------------------------------------------------------------------
(* Claims about set_source_content, checked under SpecSources.             *)

\* C11 as stated: set_source_content(i, text) returns SourceOutOfRange and
\* leaves sources_content unchanged for every i >= len(sources), an empty
\* table included; so the keys of sources_content are always below
\* len(sources).
C11_SourceContentInRange ==
    /\ (last.op = "set_source_content"
        /\ ~(last.index < Len(last.pre_sources))) =>
          (last.res = "SourceOutOfRange" /\ sources_content = last.pre_content)
    /\ \A i \in DOMAIN sources_content : i >= 0 /\ i < Len(sources)

-----------------------------------------------------------------------------
(* Claims about the tables and about reading a mappings string into a map  *)
(* that holds tables already, checked under SpecTables.                    *)

\* new is old with strings appended
AppendedTo(old, new) ==
    /\ Len(new) >= Len(old)
    /\ \A i \in 1..Len(old) : new[i] = old[i]

\* a returned add_source or add_name of a string the table held gave its
\* index and left the table as it was
ExistingIndexReturned ==
    /\ (pc = "returned" /\ last.op = "add_source"
        /\ \E i \in 1..Len(last.pre_sources) : last.pre_sources[i] = last.source)
       => (sources = last.pre_sources
           /\ last.pre_sources[last.index + 1] = last.source)
    /\ (pc = "returned" /\ last.op = "add_name"
        /\ \E i \in 1..Len(last.pre_names) : last.pre_names[i] = last.name)
       => (names = last.pre_names
           /\ last.pre_names[last.index + 1] = last.name)

\* C12: in every step len(sources) and len(names) do not decrease and the
\* string at an assigned index stays; add_source / add_name of a string the
\* table holds returns its index and does not grow the table.
C12_TablesAppendOnly ==
    [][/\ AppendedTo(sources, sources')
       /\ AppendedTo(names, names')
       /\ ExistingIndexReturned']_vars

\* add_source of the second of two sources already in the table
C12_Witness ==
    /\ pc = "returned"
    /\ last.op = "add_source"
    /\ Len(last.pre_sources) = 2
    /\ last.pre_sources[2] = last.source
    /\ last.index = 1
    /\ sources = last.pre_sources

\* The segments of a well-formed mappings string read off its structure:
\* the string is cut at ';' and ',', each non-empty piece into its fields,
\* and the fields are summed up.  run holds the wire counters that go on
\* across segments and lines.
NonEmpty(bytes) == bytes # <<>>

RECURSIVE WireSegments(_, _, _, _)
WireSegments(segments, line, column, run) ==
    IF segments = <<>> THEN [mappings |-> <<>>, run |-> run]
    ELSE LET fields == FieldsOf(Head(segments))
             value(i) == vlq_decode(fields[i], 1).value
             here == column + value(1)
             run4 == IF Len(fields) >= 4
                     THEN [run EXCEPT !.source = @ + value(2),
                                      !.original_line = @ + value(3),
                                      !.original_column = @ + value(4)]
                     ELSE run
             run5 == IF Len(fields) >= 5
                     THEN [run4 EXCEPT !.name = @ + value(5)]
                     ELSE run4
             rest == WireSegments(Tail(segments), line, here, run5)
         IN  [mappings |-> <<[line |-> line, column |-> here,
                              fields |-> Len(fields), wire |-> run5]>>
                              \o rest.mappings,
              run |-> rest.run]

RECURSIVE WireLines(_, _, _)
WireLines(by_line, line, run) ==
    IF by_line = <<>> THEN <<>>
    ELSE LET this == WireSegments(
                         SelectSeq(SplitBy(Head(by_line), ","), NonEmpty),
                         line, 0, run)
         IN  this.mappings \o WireLines(Tail(by_line), line + 1, this.run)

WireMappings(bytes) ==
    WireLines(SplitBy(bytes, ";"), 0,
              [source |-> 0, original_line |-> 0, original_column |-> 0,
               name |-> 0])

\* the segments of ms that no later segment of the same line and column
\* replaces
Lasting(ms) ==
    {n \in 1..Len(ms) :
        \A m \in (n + 1)..Len(ms) :
            ms[m].line # ms[n].line \/ ms[m].column # ms[n].column}

\* the strings a call appended to a table were not in it
ReusedNotAppended(old, new) ==
    /\ AppendedTo(old, new)
    /\ \A i \in (Len(old) + 1)..Len(new) :
          \A j \in 1..(i - 1) : new[j] # new[i]

\* C13: after a successful add_vlq_mappings(s, in_sources, in_names) every
\* mapping stored from a segment with wire source index i and wire name
\* index j names the strings in_sources[i] and in_names[j] in the map's
\* tables, and the strings the tables held already are reused, not appended
\* again.
C13_IndexTranslation ==
    (pc = "returned" /\ last.op = "add_vlq_mappings" /\ last.res = "ok") =>
        LET ms == WireMappings(last.bytes)
        IN  /\ ReusedNotAppended(last.pre_sources, sources)
            /\ ReusedNotAppended(last.pre_names, names)
            /\ \A n \in Lasting(ms) :
                  ms[n].fields >= 4 =>
                     /\ ms[n].line \in DOMAIN mapping_lines
                     /\ ms[n].column
                           \in DOMAIN mapping_lines[ms[n].line].mappings
                     /\ LET stored ==
                                mapping_lines[ms[n].line].mappings[ms[n].column]
                        IN  /\ IsSome(stored)
                            /\ Unwrap(stored).source >= 0
                            /\ Unwrap(stored).source < Len(sources)
                            /\ sources[Unwrap(stored).source + 1] =
                                  last.in_sources[ms[n].wire.source + 1]
                            /\ ms[n].fields = 5 =>
                                  /\ IsSome(Unwrap(stored).name)
                                  /\ Unwrap(Unwrap(stored).name) >= 0
                                  /\ Unwrap(Unwrap(stored).name) < Len(names)
                                  /\ names[Unwrap(Unwrap(stored).name) + 1] =
                                        last.in_names[ms[n].wire.name + 1]

\* a string read with lists in another order than the tables of the map:
\* both translations differ from the identity, and a segment with wire
\* source 1 and wire name 1 is stored
C13_Witness ==
    /\ pc = "returned"
    /\ last.op = "add_vlq_mappings"
    /\ last.res = "ok"
    /\ last.pre_sources = <<"a.js">>
    /\ last.in_sources = <<"b.js", "a.js">>
    /\ last.pre_names = <<"x">>
    /\ last.in_names = <<"y", "x">>
    /\ \E n \in Lasting(WireMappings(last.bytes)) :
          LET w == WireMappings(last.bytes)[n]
          IN  /\ w.fields = 5
              /\ w.wire.name = 1
              /\ Unwrap(mapping_lines[w.line].mappings[w.column]).name
                    = Some(0)
    /\ \E n \in Lasting(WireMappings(last.bytes)) :
          LET w == WireMappings(last.bytes)[n]
          IN  /\ w.fields >= 4
              /\ w.wire.source = 1
              /\ Unwrap(mapping_lines[w.line].mappings[w.column]).source = 0

\* every segment of bytes has 1, 4 or 5 complete fields, and no wire
\* counter goes below 0
WellFormed(bytes) ==
    /\ \A l \in 1..Len(SplitBy(bytes, ";")) :
          LET segments == SelectSeq(SplitBy(SplitBy(bytes, ";")[l], ","),
                                    NonEmpty)
          IN  \A i \in 1..Len(segments) :
                 /\ Len(FieldsOf(segments[i])) \in {1, 4, 5}
                 /\ decode64(segments[i][Len(segments[i])]) < 32
                 /\ \A f \in 1..Len(FieldsOf(segments[i])) :
                       Len(FieldsOf(segments[i])[f]) <= 6
    /\ \A n \in 1..Len(WireMappings(bytes)) :
          LET w == WireMappings(bytes)[n]
          IN  /\ w.column >= 0
              /\ w.wire.source >= 0
              /\ w.wire.original_line >= 0
              /\ w.wire.original_column >= 0
              /\ w.wire.name >= 0

\* the wire source index of the segment is behind the supplied sources
SourceBehind(w, in_sources) ==
    w.fields >= 4 /\ w.wire.source >= Len(in_sources)

\* the wire name index of the segment is behind the supplied names
NameBehind(w, in_names) ==
    w.fields = 5 /\ w.wire.name >= Len(in_names)

\* the first segment of ms with a wire index behind its list, 0 if none
FirstBehind(ms, in_sources, in_names) ==
    IF \E n \in 1..Len(ms) :
          SourceBehind(ms[n], in_sources) \/ NameBehind(ms[n], in_names)
    THEN CHOOSE n \in 1..Len(ms) :
            /\ SourceBehind(ms[n], in_sources) \/ NameBehind(ms[n], in_names)
            /\ \A m \in 1..(n - 1) :
                  ~(SourceBehind(ms[m], in_sources)
                    \/ NameBehind(ms[m], in_names))
    ELSE 0

\* the lines and columns of the first n segments of ms
PositionsOf(ms, n) == {<<ms[m].line, ms[m].column>> : m \in 1..n}

\* the lines and columns that hold a mapping
StoredPositions(lines) ==
    UNION {{<<l, c>> : c \in DOMAIN lines[l].mappings} : l \in DOMAIN lines}

\* C14: add_vlq_mappings fails with SourceOutOfRange when the wire source
\* index of a segment is at or behind the length of the supplied sources,
\* and with NameOutOfRange when its wire name index is at or behind the
\* length of the supplied names, however many sources and names the map
\* holds; the mapping of that segment is not stored.
C14_WireIndexOutOfRange ==
    (pc = "returned" /\ last.op = "add_vlq_mappings"
     /\ WellFormed(last.bytes)) =>
        LET ms == WireMappings(last.bytes)
            n == FirstBehind(ms, last.in_sources, last.in_names)
        IN  IF n = 0
            THEN last.res \notin {"SourceOutOfRange", "NameOutOfRange"}
            ELSE /\ last.res = IF SourceBehind(ms[n], last.in_sources)
                               THEN "SourceOutOfRange"
                               ELSE "NameOutOfRange"
                 /\ StoredPositions(mapping_lines)
                       = StoredPositions(last.pre) \cup PositionsOf(ms, n - 1)

\* wire source 1 with one supplied source is refused by a map that holds
\* two sources, after the segment before it was stored
C14_Witness ==
    /\ pc = "returned"
    /\ last.op = "add_vlq_mappings"
    /\ last.res = "SourceOutOfRange"
    /\ Len(last.pre_sources) = 2
    /\ Len(last.in_sources) = 1
    /\ MappingCount(mapping_lines) = 1

\* the segment cannot be read: it has 2 or 3 fields, a counter goes below 0
\* with it, or a wire index of it is behind its list
Unreadable(w, in_sources, in_names) ==
    \/ w.fields \notin {1, 4, 5}
    \/ w.column < 0
    \/ /\ w.fields >= 4
       /\ \/ w.wire.source < 0
          \/ w.wire.original_line < 0
          \/ w.wire.original_column < 0
    \/ w.fields = 5 /\ w.wire.name < 0
    \/ SourceBehind(w, in_sources)
    \/ NameBehind(w, in_names)

\* the first segment of ms that cannot be read, 0 if none
FirstUnreadable(ms, in_sources, in_names) ==
    IF \E n \in 1..Len(ms) : Unreadable(ms[n], in_sources, in_names)
    THEN CHOOSE n \in 1..Len(ms) :
            /\ Unreadable(ms[n], in_sources, in_names)
            /\ \A m \in 1..(n - 1) :
                  ~Unreadable(ms[m], in_sources, in_names)
    ELSE 0

\* no segment of bytes has more than 5 fields
AtMostFiveFields(bytes) ==
    \A n \in 1..Len(WireMappings(bytes)) : WireMappings(bytes)[n].fields <= 5

\* every string of list is in table
AllIn(list, table) ==
    \A i \in 1..Len(list) : \E j \in 1..Len(table) : table[j] = list[i]

\* C15: when add_vlq_mappings fails on a segment, the mappings of the
\* segments before it are stored, and the supplied sources and names are
\* merged into the tables.
C15_NotAtomic ==
    (pc = "returned" /\ last.op = "add_vlq_mappings" /\ last.res # "ok"
     /\ AtMostFiveFields(last.bytes)) =>
        LET ms == WireMappings(last.bytes)
            n == FirstUnreadable(ms, last.in_sources, last.in_names)
            before == SubSeq(ms, 1, n - 1)
        IN  /\ n > 0
            /\ StoredPositions(mapping_lines)
                  = StoredPositions(last.pre) \cup PositionsOf(ms, n - 1)
            /\ \A m \in Lasting(before) :
                  IsSome(mapping_lines[ms[m].line].mappings[ms[m].column])
                     = (ms[m].fields >= 4)
            /\ AppendedTo(last.pre_sources, sources)
            /\ AppendedTo(last.pre_names, names)
            /\ AllIn(last.in_sources, sources)
            /\ AllIn(last.in_names, names)

\* a failed call that has stored a mapping and made both tables longer
C15_Witness ==
    /\ pc = "returned"
    /\ last.op = "add_vlq_mappings"
    /\ last.res # "ok"
    /\ MappingCount(mapping_lines) = 1
    /\ MappingCount(last.pre) = 0
    /\ Len(sources) > Len(last.pre_sources)
    /\ Len(names) > Len(last.pre_names)

-----------------------------------------------------------------------------
(* Claims about the decoding of a mappings string, checked under SpecCodec.*)

\* the map holds, at the line and column of every segment of ms, the
\* mapping of the last segment there: no original for 1 field, an original
\* without name for 4, with name for 5, the original line and column being
\* the wire counters and source and name the strings the wire counters name
\* in the supplied lists; and it holds no other mapping than lines did
StoredAsRead(ms, lines) ==
    /\ StoredPositions(mapping_lines)
          = StoredPositions(lines) \cup PositionsOf(ms, Len(ms))
    /\ \A n \in Lasting(ms) :
          LET stored == mapping_lines[ms[n].line].mappings[ms[n].column]
              w == ms[n].wire
          IN  /\ ms[n].fields = 1 => stored = None
              /\ ms[n].fields \in {4, 5} =>
                    /\ IsSome(stored)
                    /\ Unwrap(stored).original_line = w.original_line
                    /\ Unwrap(stored).original_column = w.original_column
                    /\ Unwrap(stored).source >= 0
                    /\ Unwrap(stored).source < Len(sources)
                    /\ sources[Unwrap(stored).source + 1]
                          = last.in_sources[w.source + 1]
              /\ ms[n].fields = 4 => Unwrap(stored).name = None
              /\ ms[n].fields = 5 =>
                    /\ IsSome(Unwrap(stored).name)
                    /\ Unwrap(Unwrap(stored).name) >= 0
                    /\ Unwrap(Unwrap(stored).name) < Len(names)
                    /\ names[Unwrap(Unwrap(stored).name) + 1]
                          = last.in_names[w.name + 1]

\* C17 as stated: in a string add_vlq_mappings accepts, each ';' advances
\* the line and resets the column counter while the other counters go on,
\* ',' and empty segments add nothing, a segment stores a mapping by its 1,
\* 4 or 5 fields, and the stored mappings are as many as the non-empty
\* segments with distinct line and column.
C17_SegmentsAsMappings ==
    (pc = "returned" /\ last.op = "add_vlq_mappings" /\ last.res = "ok") =>
        /\ StoredAsRead(WireMappings(last.bytes), last.pre)
        /\ MappingCount(mapping_lines) - MappingCount(last.pre)
              = Cardinality(PositionsOf(WireMappings(last.bytes),
                                        Len(WireMappings(last.bytes)))
                            \ StoredPositions(last.pre))

\* C17 amended: a string whose non-empty segments all have 1, 4 or 5
\* fields, with no counter below 0 and no wire index behind its list, is
\* accepted and read as stated: lines by ';', columns from 0 on each line,
\* the other counters going on, one mapping a segment by its arity, as many
\* mappings as segments with distinct line and column.  (Fields behind the
\* fifth of a segment are read as the fields of a further mapping.)
C17_WellFormedSegmentsAsMappings ==
    (pc = "returned" /\ last.op = "add_vlq_mappings"
     /\ WellFormed(last.bytes)
     /\ FirstBehind(WireMappings(last.bytes), last.in_sources,
                    last.in_names) = 0) =>
        /\ last.res = "ok"
        /\ StoredAsRead(WireMappings(last.bytes), last.pre)
        /\ MappingCount(mapping_lines) - MappingCount(last.pre)
              = Cardinality(PositionsOf(WireMappings(last.bytes),
                                        Len(WireMappings(last.bytes)))
                            \ StoredPositions(last.pre))

\* a string of two lines whose second segment has source delta 0 after a
\* first segment with source delta 1: the source counter went on across
\* the ';', the column counter did not
C17_Witness ==
    /\ pc = "returned"
    /\ last.op = "add_vlq_mappings"
    /\ last.res = "ok"
    /\ LET ms == WireMappings(last.bytes)
       IN  /\ Len(ms) = 2
           /\ ms[1].line = 0 /\ ms[1].fields = 4 /\ ms[1].wire.source = 1
           /\ ms[2].line = 1 /\ ms[2].fields = 4 /\ ms[2].wire.source = 1
           /\ ms[2].column = 0
           /\ Unwrap(mapping_lines[1].mappings[0]).source = 1

-----------------------------------------------------------------------------
(* Further claims about offset_lines, checked under Spec.                  *)

\* C16: offset_lines(L, +k) followed by offset_lines(L + k, -k), k > 0 and
\* no key overflowing, restores mapping_lines to its keys and contents
\* before the first call.
C16_OffsetLinesRoundTrip ==
    (pc # "idle" /\ last.op = "offset_lines" /\ "first" \in DOMAIN last) =>
        /\ last.res = "ok"
        /\ mapping_lines = last.first

\* a round trip on a map with a line below L and two lines at or above it
C16_Witness ==
    /\ pc = "returned"
    /\ last.op = "offset_lines"
    /\ "first" \in DOMAIN last
    /\ \E k \in DOMAIN last.first : ULt(k, last.line + last.offset)
    /\ Cardinality({k \in DOMAIN last.first :
                       ULe(last.line + last.offset, k)}) >= 2
    /\ mapping_lines # last.pre

\* key + offset is not a u32
KeyLeavesRange(key, offset) ==
    \/ (key >= 0 /\ key + offset < 0)
    \/ (key < 0 /\ key + offset >= 0)

\* C18: after a successful offset_lines(from_line, delta), every line that
\* had key >= from_line is stored at key + delta with its column entries
\* unchanged (the shifted line's entries alone, nothing merged into them), and
\* no line remains at a key in [from_line, from_line + delta) when delta > 0.
C18_ShiftWithOverwrite ==
    (pc = "returned" /\ last.op = "offset_lines" /\ last.res = "ok") =>
        /\ \A k \in Shifted(last.pre, last.line) :
              /\ ~KeyLeavesRange(k, last.offset)
              /\ (k + last.offset) \in DOMAIN mapping_lines
              /\ mapping_lines[k + last.offset].mappings = last.pre[k].mappings
        /\ last.offset > 0 =>
              \A j \in DOMAIN mapping_lines :
                  ~(ULe(last.line, j) /\ ULt(j, last.line + last.offset))

\* C19: each MappingLine stored in mapping_lines under key k has its own
\* generated_line equal to k.
C19_GeneratedLineIsKey ==
    \A k \in DOMAIN mapping_lines : mapping_lines[k].generated_line = k

\* C20: a call of offset_lines that returns an error leaves mapping_lines,
\* sources, names and sources_content exactly as they were before the call.
C20_ErrorLeavesMapUntouched ==
    [][(/\ last' # last
        /\ last'.op = "offset_lines"
        /\ last'.res = "UnexpectedNegativeNumber")
       => UNCHANGED <<mapping_lines, sources, names, sources_content>>]_vars

\* offset_lines has returned the error on a map that holds two lines
C20_Witness ==
    /\ pc = "returned"
    /\ last.op = "offset_lines"
    /\ last.res = "UnexpectedNegativeNumber"
    /\ Cardinality(DOMAIN last.pre) >= 2
    /\ mapping_lines = last.pre

====
